---- MODULE Spec2Model ----
(***************************************************************************)
(* Rating and risk-classification engine of the commercial insurance       *)
(* rater (server/routes/rater.ts, shared/insurance.ts) and the in-memory   *)
(* quote store of the surrounding service (server/routes/quotes.ts).       *)
(*                                                                         *)
(* Numbers.  The engine multiplies two-decimal factors and rounds the      *)
(* product once.  Factors are held here as integers in hundredths (Scale), *)
(* a product of k factors as an exact integer over Scale^k, and Math.round *)
(* is applied to that exact quotient.  Exact products exceed 32 bits, so   *)
(* they are carried as five digits in base Base, least significant first.  *)
(* Ratios of the risk matrix (sum / count) are exact fractions.            *)
(*                                                                         *)
(* The engine computes in IEEE doubles.  The two agree on every input the  *)
(* specifications below draw: no product drawn lies within a rounding      *)
(* error of a half-integer unless all its factors are exact in binary, and *)
(* no overallScore drawn lies within a rounding error of a tier threshold  *)
(* without being equal to it in doubles as well.  Inputs on which doubles  *)
(* leave the exact value (500 * 1.15 * 1.5 is 862.5, the engine computes   *)
(* 862.4999999999999 and rounds to 862) are not drawn.                     *)
(***************************************************************************)
EXTENDS Integers, Sequences, FiniteSets, TLC

VARIABLES
    driver,      \* SpecDriver: the Driver passed to the scorer
    scoreRes,    \* SpecDriver: last result of scoreDriverRisk, or NoResult
    rateRes,     \* SpecDriver: last result of rateAutoLiabilityForDriver
    requests,    \* requests in flight [route, body], in the order they are dispatched
    submission,  \* request body last read by a rating handler
    quote,       \* last response of POST quoteSubmission, or NoResult
    matrix,      \* last response of POST computeRiskMatrix, or NoResult
    store,       \* QUOTE_STORE
    now,         \* the clock read by new Date(), in milliseconds
    saved,       \* last response of POST saveQuote, or NoResult
    listed,      \* last response of GET listQuotes, or NoResult
    log,         \* history: [route, body, response] of every request served
    tempScript,  \* content of the file ml/temp_predict.py, or NoFile
    predicts     \* SpecPredict: [body, pc, ran, response] of each /api/ml/predict request

vars ==
    <<driver, scoreRes, rateRes, requests, submission, quote, matrix, store, now, saved,
      listed, log, tempScript, predicts>>

NoResult == [status |-> 0]
NoDriver == [id |-> "none"]
NoSubmission == [company |-> "none"]
NoBody == [none |-> TRUE]
NoFile == [file |-> "absent"]
NotRun == [run |-> "no"]

(***************************************************************************)
(* Bounds of the model.                                                    *)
(***************************************************************************)
MaxCount == 2        \* violations / accidents / priorClaims drawn from 0..MaxCount
HugeCount == 100     \* an adversarially large count
MaxDrivers == 2      \* drivers per submission (Spec)
MaxVehicles == 2     \* vehicles per submission
MaxTrailers == 1     \* trailers per submission
MaxFleet == 8        \* drivers per submission (SpecMatrix)
MaxRequests == 3     \* requests in flight (SpecServer)
MaxTime == 2         \* last clock reading that differs from the one before
MaxPredicts == 2     \* concurrent /api/ml/predict requests (SpecPredict)

(***************************************************************************)
(* Fixed-point scale and exact arithmetic helpers.                         *)
(***************************************************************************)
Scale == 100
Base == 10000

Abs(x) == IF x < 0 THEN -x ELSE x

\* A natural number below Base^5 as its five digits, least significant first.
BigFromNat(n) == <<n % Base, (n \div Base) % Base, n \div (Base * Base), 0, 0>>

BigToNat(b) == b[1] + Base * (b[2] + Base * (b[3] + Base * (b[4] + Base * b[5])))

BigMul(b, m) ==
    LET t1 == b[1] * m
        t2 == b[2] * m + t1 \div Base
        t3 == b[3] * m + t2 \div Base
        t4 == b[4] * m + t3 \div Base
        t5 == b[5] * m + t4 \div Base
    IN  <<t1 % Base, t2 % Base, t3 % Base, t4 % Base, t5>>

BigAdd(a, b) ==
    LET t1 == a[1] + b[1]
        t2 == a[2] + b[2] + t1 \div Base
        t3 == a[3] + b[3] + t2 \div Base
        t4 == a[4] + b[4] + t3 \div Base
        t5 == a[5] + b[5] + t4 \div Base
    IN  <<t1 % Base, t2 % Base, t3 % Base, t4 % Base, t5>>

\* floor division by a small positive integer, and the remainder
BigDivMod(b, d) ==
    LET c5 == b[5]
        c4 == (c5 % d) * Base + b[4]
        c3 == (c4 % d) * Base + b[3]
        c2 == (c3 % d) * Base + b[2]
        c1 == (c2 % d) * Base + b[1]
    IN  [q |-> <<c1 \div d, c2 \div d, c3 \div d, c4 \div d, c5 \div d>>, r |-> c1 % d]

\* b * Scale^k
RECURSIVE BigMulPow(_, _)
BigMulPow(b, k) == IF k = 0 THEN b ELSE BigMulPow(BigMul(b, Scale), k - 1)

\* floor(b / Scale^k), and whether the division was exact
RECURSIVE BigDivPow(_, _)
BigDivPow(b, k) ==
    IF k = 0 THEN [q |-> b, exact |-> TRUE]
    ELSE LET one == BigDivMod(b, Scale)
             rest == BigDivPow(one.q, k - 1)
         IN  [q |-> rest.q, exact |-> rest.exact /\ one.r = 0]

(***************************************************************************)
(* A number baseRate * f1 * ... * fk with every f in hundredths:           *)
(* (IF neg THEN -1 ELSE 1) * mag / Scale^k.                                *)
(***************************************************************************)
Sc(i) == [neg |-> i < 0, mag |-> BigFromNat(Abs(i)), k |-> 0]

ScTimes(x, f) == [neg |-> (x.neg /\ f > 0) \/ (~x.neg /\ f < 0),
                  mag |-> BigMul(x.mag, Abs(f)),
                  k   |-> x.k + 1]

\* Object.values(factors).reduce((a, b) => a * b, start)
RECURSIVE ReduceTimes(_, _)
ReduceTimes(factors, start) ==
    IF factors = <<>> THEN start
    ELSE ReduceTimes(Tail(factors), ScTimes(start, Head(factors).value))

\* MathRound with the fraction dropped instead of rounded
MathTrunc(x) ==
    IF x.neg THEN -BigToNat(BigDivPow(x.mag, x.k).q) ELSE BigToNat(BigDivPow(x.mag, x.k).q)

\* Math.round: nearest integer, ties towards +Infinity
MathRound(x) ==
    IF x.k = 0 THEN (IF x.neg THEN -BigToNat(x.mag) ELSE BigToNat(x.mag))
    ELSE LET half == BigMulPow(BigFromNat(Scale \div 2), x.k - 1)
             d == BigDivPow(BigAdd(x.mag, half), x.k)
         IN  IF ~x.neg THEN BigToNat(d.q)
             ELSE -(BigToNat(d.q) - (IF d.exact THEN 1 ELSE 0))

Min(a, b) == IF a < b THEN a ELSE b
Max(a, b) == IF a > b THEN a ELSE b

clamp(value, min, max) == Max(min, Min(max, value))

(***************************************************************************)
(* Driver risk scorer.  A factor map is the sequence of its entries in     *)
(* insertion order.                                                        *)
(***************************************************************************)
F(name, value) == [name |-> name, value |-> value]

FactorNames(factors) == {factors[i].name : i \in DOMAIN factors}

\* AgeBracket with the third condition dropped: a plain else
AgeBracketElse(d) ==
    IF d.age < 25 THEN [adj |-> 15, factors |-> <<F("age_lt_25", 130)>>]
    ELSE IF d.age > 65 THEN [adj |-> 8, factors |-> <<F("age_gt_65", 115)>>]
    ELSE [adj |-> -5, factors |-> <<F("age_25_50", 90)>>]

AgeBracket(d) ==
    IF d.age < 25 THEN [adj |-> 15, factors |-> <<F("age_lt_25", 130)>>]
    ELSE IF d.age > 65 THEN [adj |-> 8, factors |-> <<F("age_gt_65", 115)>>]
    ELSE IF d.age >= 25 /\ d.age <= 50 THEN [adj |-> -5, factors |-> <<F("age_25_50", 90)>>]
    ELSE [adj |-> 0, factors |-> <<>>]

CdlBracket(d) ==
    IF d.yearsCdl >= 5 THEN [adj |-> -5, factors |-> <<F("cdl_5_plus", 92)>>]
    ELSE IF d.yearsCdl <= 1 THEN [adj |-> 8, factors |-> <<F("cdl_lt_1", 118)>>]
    ELSE [adj |-> 0, factors |-> <<>>]

\* History with the accident and prior-claim weights exchanged
HistorySwapped(d) ==
    [adj |-> d.violations * 10 + d.accidents * 12 + d.priorClaims * 15,
     factors |->
        (IF d.violations > 0 THEN <<F("violations", Scale + d.violations * 8)>> ELSE <<>>)
        \o (IF d.accidents > 0 THEN <<F("accidents", Scale + d.accidents * 12)>> ELSE <<>>)
        \o (IF d.priorClaims > 0 THEN <<F("prior_claims", Scale + d.priorClaims * 10)>> ELSE <<>>)]

History(d) ==
    [adj |-> d.violations * 10 + d.accidents * 15 + d.priorClaims * 12,
     factors |->
        (IF d.violations > 0 THEN <<F("violations", Scale + d.violations * 8)>> ELSE <<>>)
        \o (IF d.accidents > 0 THEN <<F("accidents", Scale + d.accidents * 12)>> ELSE <<>>)
        \o (IF d.priorClaims > 0 THEN <<F("prior_claims", Scale + d.priorClaims * 10)>> ELSE <<>>)]

\* scoreDriverRisk without the final normalisation
scoreDriverRiskNoClamp(d) ==
    [score   |-> 50 + AgeBracket(d).adj + CdlBracket(d).adj + History(d).adj,
     factors |-> AgeBracket(d).factors \o CdlBracket(d).factors \o History(d).factors]

scoreDriverRisk(d) ==
    [score   |-> clamp(50 + AgeBracket(d).adj + CdlBracket(d).adj + History(d).adj, 0, 100),
     factors |-> AgeBracket(d).factors \o CdlBracket(d).factors \o History(d).factors]

\* rateAutoLiabilityForDriver whose product leaves out the scoreFactor
rateAutoLiabilityForDriverNoScore(d, baseRate) ==
    LET r == scoreDriverRisk(d)
        scoreFactor == clamp((r.score * Scale) \div 50, 60, 200)
        combinedFactor == ReduceTimes(r.factors, Sc(baseRate))
    IN  [premium |-> MathRound(combinedFactor),
         factors |-> <<F("scoreFactor", scoreFactor)>> \o r.factors]

rateAutoLiabilityForDriver(d, baseRate) ==
    LET r == scoreDriverRisk(d)
        scoreFactor == clamp((r.score * Scale) \div 50, 60, 200)
        combinedFactor == ReduceTimes(r.factors, ScTimes(Sc(baseRate), scoreFactor))
    IN  [premium |-> MathRound(combinedFactor),
         factors |-> <<F("scoreFactor", scoreFactor)>> \o r.factors]

(***************************************************************************)
(* Vehicle line rater.                                                     *)
(***************************************************************************)
DriverBaseRate == 800
autoLiabBase == 1500
glBase == 500
cargoBase == 400
reeferBase == 250
tiBase == 150

\* limit / unit as a factor in hundredths
\* Ratio in whole units
RatioTruncated(limit, unit) == (limit \div unit) * Scale

Ratio(limit, unit) == (limit * Scale) \div unit

Line(line, baseRate, factors) ==
    [line |-> line,
     premium |-> MathRound(ReduceTimes(factors, Sc(baseRate))),
     baseRate |-> baseRate,
     factors |-> factors]

\* hasReeferTrailer that looks at the trailer type only
hasReeferTrailerTypeOnly(trailers) ==
    \E i \in DOMAIN trailers : trailers[i].trailerType = "Reefer"

hasReeferTrailer(trailers) ==
    \E i \in DOMAIN trailers : trailers[i].refrigerated \/ trailers[i].trailerType = "Reefer"

\* rateVehicleLines whose cargo line does not depend on a positive limit
rateVehicleLinesCargoAlways(vehicle, trailers, coverages, operational) ==
    LET ageFactor == F("ageFactor", Scale + clamp(vehicle.vehicleAge, 0, 25))
        gvwFactor == F("gvwFactor", IF vehicle.gvw > 26000 THEN 120 ELSE 100)
        radiusFactor == F("radiusFactor",
                          IF operational.avgMilesPerYearPerUnit > 80000 THEN 115 ELSE 100)
        geoFactor == F("geoFactor", operational.geographicRisk)
        cargoLimitFactor ==
            F("cargoLimitFactor", clamp(Ratio(coverages.cargoLimitPerVehicle, 100000), 50, 500))
        reeferLimitFactor ==
            F("reeferLimitFactor", clamp(Ratio(coverages.reeferLimitPerVehicle, 25000), 50, 400))
        tiLimitFactor ==
            F("tiLimitFactor", clamp(Ratio(coverages.trailerInterchangeLimit, 40000), 50, 300))
    IN  <<Line("AutoLiability", autoLiabBase, <<ageFactor, gvwFactor, radiusFactor, geoFactor>>),
          Line("GeneralLiability", glBase, <<radiusFactor, geoFactor>>)>>
        \o (IF coverages.cargoLimitPerVehicle >= 0
            THEN <<Line("MotorTruckCargo", cargoBase, <<cargoLimitFactor, radiusFactor, geoFactor>>)>>
            ELSE <<>>)
        \o (IF coverages.reeferCoverage /\ hasReeferTrailer(trailers)
            THEN <<Line("ReeferBreakdown", reeferBase, <<reeferLimitFactor, geoFactor>>)>>
            ELSE <<>>)
        \o (IF coverages.trailerInterchange
            THEN <<Line("TrailerInterchange", tiBase, <<tiLimitFactor, geoFactor>>)>>
            ELSE <<>>)

rateVehicleLines(vehicle, trailers, coverages, operational) ==
    LET ageFactor == F("ageFactor", Scale + clamp(vehicle.vehicleAge, 0, 25))
        gvwFactor == F("gvwFactor", IF vehicle.gvw > 26000 THEN 120 ELSE 100)
        radiusFactor == F("radiusFactor",
                          IF operational.avgMilesPerYearPerUnit > 80000 THEN 115 ELSE 100)
        geoFactor == F("geoFactor", operational.geographicRisk)
        cargoLimitFactor ==
            F("cargoLimitFactor", clamp(Ratio(coverages.cargoLimitPerVehicle, 100000), 50, 500))
        reeferLimitFactor ==
            F("reeferLimitFactor", clamp(Ratio(coverages.reeferLimitPerVehicle, 25000), 50, 400))
        tiLimitFactor ==
            F("tiLimitFactor", clamp(Ratio(coverages.trailerInterchangeLimit, 40000), 50, 300))
    IN  <<Line("AutoLiability", autoLiabBase, <<ageFactor, gvwFactor, radiusFactor, geoFactor>>),
          Line("GeneralLiability", glBase, <<radiusFactor, geoFactor>>)>>
        \o (IF coverages.cargoLimitPerVehicle > 0
            THEN <<Line("MotorTruckCargo", cargoBase, <<cargoLimitFactor, radiusFactor, geoFactor>>)>>
            ELSE <<>>)
        \o (IF coverages.reeferCoverage /\ hasReeferTrailer(trailers)
            THEN <<Line("ReeferBreakdown", reeferBase, <<reeferLimitFactor, geoFactor>>)>>
            ELSE <<>>)
        \o (IF coverages.trailerInterchange
            THEN <<Line("TrailerInterchange", tiBase, <<tiLimitFactor, geoFactor>>)>>
            ELSE <<>>)

(***************************************************************************)
(* Risk matrix.  Frequencies are exact fractions [n, d] in lowest terms.   *)
(***************************************************************************)
RECURSIVE GCD(_, _)
GCD(a, b) == IF b = 0 THEN a ELSE GCD(b, a % b)

\* n / d; a zero divisor gives NaN (0 / 0, held as [0, 0]) or Infinity ([1, 0])
Rat(n, d) ==
    IF d = 0 THEN [n |-> IF n = 0 THEN 0 ELSE 1, d |-> 0]
    ELSE LET g == GCD(n, d) IN [n |-> n \div g, d |-> d \div g]

RatLess(x, y) == x.n * y.d < y.n * x.d
RatTimes(x, y) == Rat(x.n * y.n, x.d * y.d)
RatPlus(x, y) == Rat(x.n * y.d + y.n * x.d, x.d * y.d)
\* RatClamp without the lower bound
RatClampNoMin(x, min, max) == IF RatLess(Rat(max, 1), x) THEN Rat(max, 1) ELSE x

\* RatClamp without the upper bound
RatClampNoMax(x, min, max) == IF RatLess(x, Rat(min, 1)) THEN Rat(min, 1) ELSE x

RatClamp(x, min, max) ==
    IF RatLess(x, Rat(min, 1)) THEN Rat(min, 1)
    ELSE IF RatLess(Rat(max, 1), x) THEN Rat(max, 1)
    ELSE x

\* seq.reduce((a, x) => a + x, 0)
RECURSIVE ReducePlus(_)
ReducePlus(seq) == IF seq = <<>> THEN 0 ELSE Head(seq) + ReducePlus(Tail(seq))


\* Average that does not divide
AverageNoDivide(sum, count) == Rat(sum, 1)

\* Average without the guard on the count
AverageNoGuard(sum, count) == Rat(sum, count)

\* sum / Math.max(1, count)
Average(sum, count) == Rat(sum, Max(1, count))

Cell(category, frequency, severity) ==
    [category |-> category, frequency |-> frequency, severity |-> severity,
     score |-> RatTimes(frequency, Rat(severity, 1))]

\* riskTier with <= in place of <
riskTierInclusive(overallScore) ==
    IF ~RatLess(Rat(35, 1), overallScore) THEN "Low"
    ELSE IF ~RatLess(Rat(65, 1), overallScore) THEN "Moderate"
    ELSE IF ~RatLess(Rat(85, 1), overallScore) THEN "High"
    ELSE "Severe"

riskTier(overallScore) ==
    IF RatLess(overallScore, Rat(35, 1)) THEN "Low"
    ELSE IF RatLess(overallScore, Rat(65, 1)) THEN "Moderate"
    ELSE IF RatLess(overallScore, Rat(85, 1)) THEN "High"
    ELSE "Severe"

\* buildRiskMatrix whose driver frequency leaves the accidents out
buildRiskMatrixViolationsOnly(s) ==
    LET violAcc == [i \in DOMAIN s.drivers |-> s.drivers[i].violations]
        old == [i \in DOMAIN s.vehicles |-> IF s.vehicles[i].vehicleAge > 10 THEN 1 ELSE 0]
        driverBehaviorFreq ==
            RatClamp(Average(ReducePlus(violAcc), Len(s.drivers)), 1, 5)
        driverBehaviorSev ==
            IF \E i \in DOMAIN s.drivers : s.drivers[i].accidents >= 2 THEN 4 ELSE 2
        equipmentFreq ==
            RatClamp(Average(ReducePlus(old), Len(s.vehicles)), 1, 5)
        equipmentSev ==
            IF \E i \in DOMAIN s.trailers : s.trailers[i].trailerType = "Tanker" THEN 5 ELSE 2
        operationsFreq ==
            IF s.operationalFactors.avgMilesPerYearPerUnit > 80000 THEN 4 ELSE 2
        operationsSev ==
            IF "Hazmat" \in s.operationalFactors.cargoTypeMix THEN 5 ELSE 3
        cells == <<Cell("Driver Behavior", driverBehaviorFreq, driverBehaviorSev),
                   Cell("Equipment", equipmentFreq, equipmentSev),
                   Cell("Operations", Rat(operationsFreq, 1), operationsSev)>>
        raw == RatPlus(RatPlus(cells[1].score, cells[2].score), cells[3].score)
        overallScore ==
            RatClamp(RatTimes(RatTimes(raw, Rat(1, 5 * 5 * Len(cells))), Rat(100, 1)), 0, 100)
    IN  [cells |-> cells, overallScore |-> overallScore, riskTier |-> riskTier(overallScore)]

buildRiskMatrix(s) ==
    LET violAcc == [i \in DOMAIN s.drivers |-> s.drivers[i].violations + s.drivers[i].accidents]
        old == [i \in DOMAIN s.vehicles |-> IF s.vehicles[i].vehicleAge > 10 THEN 1 ELSE 0]
        driverBehaviorFreq ==
            RatClamp(Average(ReducePlus(violAcc), Len(s.drivers)), 1, 5)
        driverBehaviorSev ==
            IF \E i \in DOMAIN s.drivers : s.drivers[i].accidents >= 2 THEN 4 ELSE 2
        equipmentFreq ==
            RatClamp(Average(ReducePlus(old), Len(s.vehicles)), 1, 5)
        equipmentSev ==
            IF \E i \in DOMAIN s.trailers : s.trailers[i].trailerType = "Tanker" THEN 5 ELSE 2
        operationsFreq ==
            IF s.operationalFactors.avgMilesPerYearPerUnit > 80000 THEN 4 ELSE 2
        operationsSev ==
            IF "Hazmat" \in s.operationalFactors.cargoTypeMix THEN 5 ELSE 3
        cells == <<Cell("Driver Behavior", driverBehaviorFreq, driverBehaviorSev),
                   Cell("Equipment", equipmentFreq, equipmentSev),
                   Cell("Operations", Rat(operationsFreq, 1), operationsSev)>>
        raw == RatPlus(RatPlus(cells[1].score, cells[2].score), cells[3].score)
        overallScore ==
            RatClamp(RatTimes(RatTimes(raw, Rat(1, 5 * 5 * Len(cells))), Rat(100, 1)), 0, 100)
    IN  [cells |-> cells, overallScore |-> overallScore, riskTier |-> riskTier(overallScore)]

(***************************************************************************)
(* Quote aggregator.  lineTotals is a Map: a sequence of [key, value]      *)
(* entries in insertion order; set replaces the value of a present key in  *)
(* place and appends an absent one.                                        *)
(***************************************************************************)
MapHas(m, key) == \E i \in DOMAIN m : m[i].key = key

MapGet(m, key) == m[CHOOSE i \in DOMAIN m : m[i].key = key].value

\* MapSet that never replaces
MapSetAppend(m, key, value) == Append(m, [key |-> key, value |-> value])

MapSet(m, key, value) ==
    IF MapHas(m, key)
    THEN [i \in DOMAIN m |-> IF m[i].key = key THEN [key |-> key, value |-> value] ELSE m[i]]
    ELSE Append(m, [key |-> key, value |-> value])

\* MergeLine that overwrites the running premium instead of adding to it
MergeLineOverwrite(lineTotals, line) ==
    LET prev == IF MapHas(lineTotals, line.line)
                THEN MapGet(lineTotals, line.line)
                ELSE [premium |-> 0, baseRate |-> line.baseRate, factors |-> <<>>]
    IN  MapSet(lineTotals, line.line,
               [premium |-> line.premium,
                baseRate |-> line.baseRate,
                factors |-> prev.factors])

\* MergeLine with the sign of the addition slipped
MergeLineSubtract(lineTotals, line) ==
    LET prev == IF MapHas(lineTotals, line.line)
                THEN MapGet(lineTotals, line.line)
                ELSE [premium |-> 0, baseRate |-> line.baseRate, factors |-> <<>>]
    IN  MapSet(lineTotals, line.line,
               [premium |-> prev.premium - line.premium,
                baseRate |-> line.baseRate,
                factors |-> prev.factors])

\* body of the inner loop over a vehicle's lines
MergeLine(lineTotals, line) ==
    LET prev == IF MapHas(lineTotals, line.line)
                THEN MapGet(lineTotals, line.line)
                ELSE [premium |-> 0, baseRate |-> line.baseRate, factors |-> <<>>]
    IN  MapSet(lineTotals, line.line,
               [premium |-> prev.premium + line.premium,
                baseRate |-> line.baseRate,
                factors |-> prev.factors])

RECURSIVE MergeLines(_, _)
MergeLines(lineTotals, lines) ==
    IF lines = <<>> THEN lineTotals
    ELSE MergeLines(MergeLine(lineTotals, Head(lines)), Tail(lines))

RECURSIVE MergeVehicles(_, _)
MergeVehicles(lineTotals, perVehicle) ==
    IF perVehicle = <<>> THEN lineTotals
    ELSE MergeVehicles(MergeLines(lineTotals, Head(perVehicle).lines), Tail(perVehicle))

\* AddDriverAl without the else branch
AddDriverAlNoCreate(lineTotals, driverAlTotal) ==
    IF MapHas(lineTotals, "AutoLiability")
    THEN LET alPrev == MapGet(lineTotals, "AutoLiability")
         IN  MapSet(lineTotals, "AutoLiability",
                    [premium |-> alPrev.premium + driverAlTotal,
                     baseRate |-> alPrev.baseRate,
                     factors |-> alPrev.factors])
    ELSE lineTotals

\* AddDriverAl creating the entry with the vehicles' base rate
AddDriverAlVehicleBase(lineTotals, driverAlTotal) ==
    IF MapHas(lineTotals, "AutoLiability")
    THEN LET alPrev == MapGet(lineTotals, "AutoLiability")
         IN  MapSet(lineTotals, "AutoLiability",
                    [premium |-> alPrev.premium + driverAlTotal,
                     baseRate |-> alPrev.baseRate,
                     factors |-> alPrev.factors])
    ELSE MapSet(lineTotals, "AutoLiability",
                [premium |-> driverAlTotal, baseRate |-> autoLiabBase, factors |-> <<>>])

AddDriverAl(lineTotals, driverAlTotal) ==
    IF MapHas(lineTotals, "AutoLiability")
    THEN LET alPrev == MapGet(lineTotals, "AutoLiability")
         IN  MapSet(lineTotals, "AutoLiability",
                    [premium |-> alPrev.premium + driverAlTotal,
                     baseRate |-> alPrev.baseRate,
                     factors |-> alPrev.factors])
    ELSE MapSet(lineTotals, "AutoLiability",
                [premium |-> driverAlTotal, baseRate |-> DriverBaseRate, factors |-> <<>>])

\* SumPremiums leaving the first entry out
SumPremiumsButFirst(seq) ==
    ReducePlus([i \in DOMAIN seq |-> IF i = 1 THEN 0 ELSE seq[i].premium])

\* reduce((a, x) => a + x.premium, 0)
SumPremiums(seq) == ReducePlus([i \in DOMAIN seq |-> seq[i].premium])

\* TotalPremium that stops one entry short
TotalPremiumSkipLast(lines) ==
    MathRound(Sc(SumPremiums(SubSeq(lines, 1, Len(lines) - 1))))

TotalPremium(lines) == MathRound(Sc(SumPremiums(lines)))

PerDriver(s) ==
    [i \in DOMAIN s.drivers |->
        LET r == rateAutoLiabilityForDriver(s.drivers[i], DriverBaseRate)
        IN  [driverId |-> s.drivers[i].id,
             riskScore |-> scoreDriverRisk(s.drivers[i]).score,
             premium |-> r.premium,
             factors |-> r.factors]]

PerVehicle(s) ==
    [i \in DOMAIN s.vehicles |->
        [vehicleId |-> s.vehicles[i].id,
         lines |-> rateVehicleLines(s.vehicles[i], s.trailers, s.coverages,
                                    s.operationalFactors)]]

Quote(s, quoteId) ==
    LET perDriver == PerDriver(s)
        perVehicle == PerVehicle(s)
        lineTotals == AddDriverAl(MergeVehicles(<<>>, perVehicle),
                                  SumPremiums(perDriver))
        lines == [i \in DOMAIN lineTotals |->
                    [line |-> lineTotals[i].key,
                     premium |-> lineTotals[i].value.premium,
                     baseRate |-> lineTotals[i].value.baseRate,
                     factors |-> lineTotals[i].value.factors]]
    IN  [quoteId |-> quoteId,
         companyName |-> s.company,
         perDriver |-> perDriver,
         perVehicle |-> perVehicle,
         lines |-> lines,
         totalPremium |-> TotalPremium(lines),
         riskMatrix |-> buildRiskMatrix(s)]

(***************************************************************************)
(* SubmissionSchema.safeParse: the ranges of the fields the engine reads.  *)
(***************************************************************************)
LinesOfBusiness ==
    {"AutoLiability", "GeneralLiability", "MotorTruckCargo", "ReeferBreakdown",
     "TrailerInterchange"}

DriverValid(d) ==
    /\ d.age >= 16 /\ d.age <= 100
    /\ d.violations >= 0 /\ d.accidents >= 0 /\ d.priorClaims >= 0
    /\ d.yearsCdl >= 0 /\ d.yearsCdl <= 60

VehicleValid(v) == v.vehicleAge >= 0 /\ v.vehicleAge <= 40 /\ v.gvw >= 0

TrailerTypes == {"DryVan", "Reefer", "Flatbed", "Tanker", "StepDeck", "Lowboy", "Container"}

CargoTypes == {"General", "Refrigerated", "Hazmat", "HighValue"}

CoveragesValid(c) ==
    /\ c.cargoLimitPerVehicle >= 0 /\ c.cargoLimitPerVehicle <= 2000000
    /\ c.reeferLimitPerVehicle >= 0 /\ c.reeferLimitPerVehicle <= 500000
    /\ c.trailerInterchangeLimit >= 0 /\ c.trailerInterchangeLimit <= 200000

OperationalValid(o) ==
    /\ o.avgMilesPerYearPerUnit >= 0
    /\ o.geographicRisk >= 50 /\ o.geographicRisk <= 200
    /\ o.cargoTypeMix \subseteq CargoTypes

SubmissionValid(s) ==
    /\ \A i \in DOMAIN s.drivers : DriverValid(s.drivers[i])
    /\ \A i \in DOMAIN s.vehicles : VehicleValid(s.vehicles[i])
    /\ \A i \in DOMAIN s.trailers : s.trailers[i].trailerType \in TrailerTypes
    /\ CoveragesValid(s.coverages)
    /\ OperationalValid(s.operationalFactors)

BadRequest == [status |-> 400, success |-> FALSE]

(***************************************************************************)
(* Request handlers.                                                       *)
(***************************************************************************)
QuoteIds == {"q1", "q2"}

Routes == {"/api/rater/quote", "/api/rater/risk-matrix"}

Served(route, response) ==
    /\ requests' = Tail(requests)
    /\ log' = Append(log, [route |-> route, body |-> Head(requests).body,
                           response |-> response])

\* quoteSubmission rating the body of the request served before it
QuoteSubmissionStale ==
    /\ requests # <<>> /\ Head(requests).route = "/api/rater/quote"
    /\ submission' = Head(requests).body
    /\ LET body == IF submission = NoSubmission THEN Head(requests).body ELSE submission
       IN  IF ~SubmissionValid(body)
           THEN quote' = BadRequest
           ELSE LET q == Quote(body, "")
                IN  \E id \in QuoteIds :
                        quote' = [status |-> 200, success |-> TRUE,
                                  quote |-> [q EXCEPT !.quoteId = id]]
    /\ Served("/api/rater/quote", quote')
    /\ UNCHANGED <<tempScript, predicts>>
    /\ UNCHANGED <<driver, scoreRes, rateRes, matrix, store, now, saved, listed>>

\* quoteSubmission keeping every quote it computes in the store
QuoteSubmissionPersist ==
    /\ requests # <<>> /\ Head(requests).route = "/api/rater/quote"
    /\ submission' = Head(requests).body
    /\ IF ~SubmissionValid(submission')
       THEN quote' = BadRequest /\ store' = store
       ELSE LET q == Quote(submission', "")
            IN  \E id \in QuoteIds :
                    /\ quote' = [status |-> 200, success |-> TRUE,
                                 quote |-> [q EXCEPT !.quoteId = id]]
                    /\ store' = Append(store, quote'.quote)
    /\ Served("/api/rater/quote", quote')
    /\ UNCHANGED <<tempScript, predicts>>
    /\ UNCHANGED <<driver, scoreRes, rateRes, matrix, now, saved, listed>>

QuoteSubmission ==
    /\ requests # <<>> /\ Head(requests).route = "/api/rater/quote"
    /\ submission' = Head(requests).body
    /\ IF ~SubmissionValid(submission')
       THEN quote' = BadRequest
       ELSE LET q == Quote(submission', "")
            IN  \E id \in QuoteIds :
                    quote' = [status |-> 200, success |-> TRUE,
                              quote |-> [q EXCEPT !.quoteId = id]]
    /\ Served("/api/rater/quote", quote')
    /\ UNCHANGED <<tempScript, predicts>>
    /\ UNCHANGED <<driver, scoreRes, rateRes, matrix, store, now, saved, listed>>

\* computeRiskMatrix leaving the trailers out of the matrix
ComputeRiskMatrixNoTrailers ==
    /\ requests # <<>> /\ Head(requests).route = "/api/rater/risk-matrix"
    /\ submission' = Head(requests).body
    /\ IF ~SubmissionValid(submission')
       THEN matrix' = BadRequest
       ELSE matrix' = [status |-> 200, success |-> TRUE,
                       riskMatrix |->
                           buildRiskMatrix([submission' EXCEPT !.trailers = <<>>])]
    /\ Served("/api/rater/risk-matrix", matrix')
    /\ UNCHANGED <<tempScript, predicts>>
    /\ UNCHANGED <<driver, scoreRes, rateRes, quote, store, now, saved, listed>>

ComputeRiskMatrix ==
    /\ requests # <<>> /\ Head(requests).route = "/api/rater/risk-matrix"
    /\ submission' = Head(requests).body
    /\ IF ~SubmissionValid(submission')
       THEN matrix' = BadRequest
       ELSE matrix' = [status |-> 200, success |-> TRUE,
                       riskMatrix |-> buildRiskMatrix(submission')]
    /\ Served("/api/rater/risk-matrix", matrix')
    /\ UNCHANGED <<tempScript, predicts>>
    /\ UNCHANGED <<driver, scoreRes, rateRes, quote, store, now, saved, listed>>

(***************************************************************************)
(* Quote store.  savedAt is the clock reading in milliseconds; ISO strings *)
(* of such readings compare as the readings do.                            *)
(***************************************************************************)
QuoteResultFields ==
    {"quoteId", "companyName", "perDriver", "perVehicle", "lines", "totalPremium",
     "riskMatrix"}

RiskTiers == {"Low", "Moderate", "High", "Severe"}

\* QuoteResultSchema.safeParse(body).success
QuoteResultValid(body) ==
    /\ QuoteResultFields \subseteq DOMAIN body
    /\ body.riskMatrix.riskTier \in RiskTiers

\* { ...incoming, savedAt, version }: the parsed body keeps the schema's keys only
StoredQuote(body, savedAt, version) ==
    [f \in QuoteResultFields \cup {"savedAt", "version"} |->
        IF f = "savedAt" THEN savedAt ELSE IF f = "version" THEN version ELSE body[f]]

\* saveQuote numbering the versions over the whole store
SaveQuoteGlobalVersion ==
    /\ requests # <<>> /\ Head(requests).route = "/api/rater/save-quote"
    /\ LET body == Head(requests).body
       IN  IF ~QuoteResultValid(body)
           THEN /\ saved' = BadRequest
                /\ UNCHANGED <<store, now>>
           ELSE LET existingForCompany ==
                        SelectSeq(store, LAMBDA q : q.companyName = body.companyName)
                    nextVersion == Len(store) + 1
                IN  \E t \in now..(IF now < MaxTime THEN now + 1 ELSE now) :
                        /\ now' = t
                        /\ store' = Append(store, StoredQuote(body, t, nextVersion))
                        /\ saved' = [status |-> 200, success |-> TRUE,
                                     saved |-> StoredQuote(body, t, nextVersion)]
    /\ Served("/api/rater/save-quote", saved')
    /\ UNCHANGED <<tempScript, predicts>>
    /\ UNCHANGED <<driver, scoreRes, rateRes, submission, quote, matrix, listed>>

\* saveQuote pushing the entry twice
SaveQuoteTwice ==
    /\ requests # <<>> /\ Head(requests).route = "/api/rater/save-quote"
    /\ LET body == Head(requests).body
       IN  IF ~QuoteResultValid(body)
           THEN /\ saved' = BadRequest
                /\ UNCHANGED <<store, now>>
           ELSE LET existingForCompany ==
                        SelectSeq(store, LAMBDA q : q.companyName = body.companyName)
                    nextVersion == Len(existingForCompany) + 1
                IN  \E t \in now..(IF now < MaxTime THEN now + 1 ELSE now) :
                        /\ now' = t
                        /\ store' = Append(Append(store, StoredQuote(body, t, nextVersion)),
                                         StoredQuote(body, t, nextVersion))
                        /\ saved' = [status |-> 200, success |-> TRUE,
                                     saved |-> StoredQuote(body, t, nextVersion)]
    /\ Served("/api/rater/save-quote", saved')
    /\ UNCHANGED <<tempScript, predicts>>
    /\ UNCHANGED <<driver, scoreRes, rateRes, submission, quote, matrix, listed>>

SaveQuote ==
    /\ requests # <<>> /\ Head(requests).route = "/api/rater/save-quote"
    /\ LET body == Head(requests).body
       IN  IF ~QuoteResultValid(body)
           THEN /\ saved' = BadRequest
                /\ UNCHANGED <<store, now>>
           ELSE LET existingForCompany ==
                        SelectSeq(store, LAMBDA q : q.companyName = body.companyName)
                    nextVersion == Len(existingForCompany) + 1
                IN  \E t \in now..(IF now < MaxTime THEN now + 1 ELSE now) :
                        /\ now' = t
                        /\ store' = Append(store, StoredQuote(body, t, nextVersion))
                        /\ saved' = [status |-> 200, success |-> TRUE,
                                     saved |-> StoredQuote(body, t, nextVersion)]
    /\ Served("/api/rater/save-quote", saved')
    /\ UNCHANGED <<tempScript, predicts>>
    /\ UNCHANGED <<driver, scoreRes, rateRes, submission, quote, matrix, listed>>

\* [...items].sort((a, b) => (a.savedAt < b.savedAt ? 1 : -1)).  The comparator
\* never answers 0, so the order of items with equal savedAt is left to the
\* implementation of sort: every order that puts later readings first.
SortOutcomes(items) ==
    LET perms == {p \in [DOMAIN items -> DOMAIN items] :
                      /\ \A i, j \in DOMAIN items : i # j => p[i] # p[j]
                      /\ \A i, j \in DOMAIN items :
                             i < j => items[p[i]].savedAt >= items[p[j]].savedAt}
    IN  {[i \in DOMAIN items |-> items[p[i]]] : p \in perms}

ListQuotes ==
    /\ requests # <<>> /\ Head(requests).route = "/api/rater/quotes"
    /\ \E items \in SortOutcomes(store) :
           listed' = [status |-> 200, success |-> TRUE, quotes |-> items]
    /\ Served("/api/rater/quotes", listed')
    /\ UNCHANGED <<tempScript, predicts>>
    /\ UNCHANGED <<driver, scoreRes, rateRes, submission, quote, matrix, store, now, saved>>

(***************************************************************************)
(* SpecDriver: the scorer and the per-driver rater applied to one driver   *)
(* drawn from the ranges of DriverSchema.                                  *)
(***************************************************************************)
Ages == {16, 22, 24, 25, 26, 50, 51, 65, 66, 100}
CdlYears == {0, 1, 2, 4, 5, 60}
Counts == (0..MaxCount) \cup {HugeCount}

Drivers ==
    [id : {"d"}, age : Ages, violations : Counts, accidents : Counts,
     priorClaims : Counts, yearsCdl : CdlYears]

InitDriver ==
    /\ driver \in Drivers
    /\ scoreRes = NoResult
    /\ rateRes = NoResult
    /\ requests = <<>>
    /\ submission = NoSubmission
    /\ quote = NoResult
    /\ matrix = NoResult
    /\ store = <<>>
    /\ now = 0
    /\ saved = NoResult
    /\ listed = NoResult
    /\ log = <<>>
    /\ tempScript = NoFile
    /\ predicts = <<>>

ScoreDriverRisk ==
    /\ scoreRes' = scoreDriverRisk(driver)
    /\ UNCHANGED <<tempScript, predicts>>
    /\ UNCHANGED <<driver, rateRes, requests, submission, quote, matrix, store, now, saved,
                   listed, log>>

RateAutoLiabilityForDriver ==
    /\ rateRes' = rateAutoLiabilityForDriver(driver, DriverBaseRate)
    /\ UNCHANGED <<tempScript, predicts>>
    /\ UNCHANGED <<driver, scoreRes, requests, submission, quote, matrix, store, now, saved,
                   listed, log>>

NextDriver == ScoreDriverRisk \/ RateAutoLiabilityForDriver

SpecDriver == InitDriver /\ [][NextDriver]_vars

(***************************************************************************)
(* Spec: the two rating handlers applied to a submission drawn from small  *)
(* pools of drivers, vehicles, trailers, coverages and operational factors.*)
(***************************************************************************)
RECURSIVE SeqsUpTo(_, _)
SeqsUpTo(S, n) ==
    IF n = 0 THEN {<<>>}
    ELSE LET shorter == SeqsUpTo(S, n - 1)
         IN  shorter \cup {Append(q, x) : q \in {r \in shorter : Len(r) = n - 1}, x \in S}

DriverPool ==
    {[id |-> "d1", age |-> 22, violations |-> 0, accidents |-> 0, priorClaims |-> 0,
      yearsCdl |-> 0],
     [id |-> "d2", age |-> 70, violations |-> MaxCount, accidents |-> 2, priorClaims |-> 1,
      yearsCdl |-> 10]}

VehiclePool ==
    {[id |-> "v1", vehicleAge |-> 0, gvw |-> 10000],
     [id |-> "v2", vehicleAge |-> 30, gvw |-> 30000]}

TrailerPool ==
    {[trailerType |-> "DryVan", refrigerated |-> FALSE],
     [trailerType |-> "Reefer", refrigerated |-> FALSE],
     [trailerType |-> "Tanker", refrigerated |-> TRUE]}

CoveragePool ==
    {[cargoLimitPerVehicle |-> 0, reeferCoverage |-> FALSE, reeferLimitPerVehicle |-> 25000,
      trailerInterchange |-> FALSE, trailerInterchangeLimit |-> 40000],
     [cargoLimitPerVehicle |-> 100000, reeferCoverage |-> TRUE, reeferLimitPerVehicle |-> 25000,
      trailerInterchange |-> TRUE, trailerInterchangeLimit |-> 40000],
     [cargoLimitPerVehicle |-> 250000, reeferCoverage |-> TRUE, reeferLimitPerVehicle |-> 5000,
      trailerInterchange |-> FALSE, trailerInterchangeLimit |-> 0],
     [cargoLimitPerVehicle |-> 2000000, reeferCoverage |-> FALSE, reeferLimitPerVehicle |-> 500000,
      trailerInterchange |-> TRUE, trailerInterchangeLimit |-> 200000]}

\* geographicRisk in hundredths; the last entry is outside the schema's range
OperationalPool ==
    {[avgMilesPerYearPerUnit |-> 60000, geographicRisk |-> 100, cargoTypeMix |-> {"General"}],
     [avgMilesPerYearPerUnit |-> 90000, geographicRisk |-> 200,
      cargoTypeMix |-> {"General", "Hazmat"}],
     [avgMilesPerYearPerUnit |-> 60000, geographicRisk |-> 50, cargoTypeMix |-> {"Refrigerated"}],
     [avgMilesPerYearPerUnit |-> 60000, geographicRisk |-> 250, cargoTypeMix |-> {"General"}]}

Submissions ==
    [company : {"acme"},
     drivers : SeqsUpTo(DriverPool, MaxDrivers),
     vehicles : SeqsUpTo(VehiclePool, MaxVehicles),
     trailers : SeqsUpTo(TrailerPool, MaxTrailers),
     coverages : CoveragePool,
     operationalFactors : OperationalPool]

\* everything but the requests in flight, as it is when the server starts
Idle ==
    /\ driver = NoDriver
    /\ scoreRes = NoResult
    /\ rateRes = NoResult
    /\ submission = NoSubmission
    /\ quote = NoResult
    /\ matrix = NoResult
    /\ store = <<>>
    /\ now = 0
    /\ saved = NoResult
    /\ listed = NoResult
    /\ log = <<>>
    /\ tempScript = NoFile
    /\ predicts = <<>>

Request(route, body) == [route |-> route, body |-> body]

Init ==
    /\ Idle
    /\ requests \in {<<Request(route, s)>> : route \in Routes, s \in Submissions}

Next == QuoteSubmission \/ ComputeRiskMatrix

Spec == Init /\ [][Next]_vars

(***************************************************************************)
(* SpecMatrix: the risk-matrix handler applied to fleets of up to MaxFleet *)
(* drivers, so that the tier thresholds are met exactly.                   *)
(***************************************************************************)
Fleet(n, base, extra, crash) ==
    [i \in 1..n |->
        [id |-> "d", age |-> 40, violations |-> base + (IF i <= extra THEN 1 ELSE 0),
         accidents |-> IF crash /\ i = 1 THEN 2 ELSE 0, priorClaims |-> 0, yearsCdl |-> 10]]

Fleets ==
    {Fleet(n, base, extra, crash) :
        n \in 0..MaxFleet, base \in Counts, extra \in 0..MaxFleet, crash \in BOOLEAN}

MatrixSubmissions ==
    [company : {"acme"},
     drivers : Fleets,
     vehicles : {<<>>} \cup {<<v>> : v \in VehiclePool} \cup {<<v, v>> : v \in VehiclePool},
     trailers : {<<>>} \cup {<<t>> : t \in TrailerPool},
     coverages : {c \in CoveragePool : c.cargoLimitPerVehicle = 0},
     operationalFactors : OperationalPool]

InitMatrix ==
    /\ Idle
    /\ requests \in {<<Request("/api/rater/risk-matrix", s)>> : s \in MatrixSubmissions}

NextMatrix == ComputeRiskMatrix

SpecMatrix == InitMatrix /\ [][NextMatrix]_vars

(***************************************************************************)
(* SpecBoth: one submission sent to both rating entry points.              *)
(***************************************************************************)
InitBoth ==
    /\ Idle
    /\ requests \in {<<Request("/api/rater/quote", s), Request("/api/rater/risk-matrix", s)>> :
                        s \in Submissions}

NextBoth == QuoteSubmission \/ ComputeRiskMatrix

SpecBoth == InitBoth /\ [][NextBoth]_vars

(***************************************************************************)
(* SpecServer: up to MaxRequests requests to the four rater routes, served *)
(* one at a time (the handlers are synchronous) in every order.            *)
(***************************************************************************)
DriverOf(id) == CHOOSE d \in DriverPool : d.id = id
VehicleOf(id) == CHOOSE v \in VehiclePool : v.id = id
TrailerOf(type) == CHOOSE t \in TrailerPool : t.trailerType = type
CoverageOf(cargoLimit) == CHOOSE c \in CoveragePool : c.cargoLimitPerVehicle = cargoLimit
OperationalOf(geographicRisk) ==
    CHOOSE o \in OperationalPool : o.geographicRisk = geographicRisk

AcmeSubmission ==
    [company |-> "acme", drivers |-> <<DriverOf("d1")>>, vehicles |-> <<VehicleOf("v1")>>,
     trailers |-> <<TrailerOf("Tanker")>>, coverages |-> CoverageOf(100000),
     operationalFactors |-> OperationalOf(100)]

ZenithSubmission ==
    [company |-> "zenith", drivers |-> <<DriverOf("d1"), DriverOf("d2")>>,
     vehicles |-> <<VehicleOf("v2")>>, trailers |-> <<>>, coverages |-> CoverageOf(0),
     operationalFactors |-> OperationalOf(200)]

\* geographicRisk 2.5 is outside the schema's range
InvalidSubmission == [AcmeSubmission EXCEPT !.operationalFactors = OperationalOf(250)]

\* the quote of a submission without drivers, vehicles and trailers
EmptyQuote(quoteId, companyName) ==
    [quoteId |-> quoteId, companyName |-> companyName, perDriver |-> <<>>,
     perVehicle |-> <<>>,
     lines |-> <<[line |-> "AutoLiability", premium |-> 0, baseRate |-> DriverBaseRate,
                  factors |-> <<>>]>>,
     totalPremium |-> 0,
     riskMatrix |->
        [cells |-> <<Cell("Driver Behavior", Rat(1, 1), 2), Cell("Equipment", Rat(1, 1), 2),
                     Cell("Operations", Rat(2, 1), 3)>>,
         overallScore |-> Rat(40, 3), riskTier |-> "Low"]]

\* a body without the fields QuoteResultSchema requires
MalformedQuote == [quoteId |-> "q1", companyName |-> "acme"]

\* a body whose riskTier is not one of the schema's four
BadTierQuote == [EmptyQuote("q1", "acme") EXCEPT !.riskMatrix.riskTier = "Extreme"]

ServerRequests ==
    {Request("/api/rater/quote", s) :
        s \in {AcmeSubmission, ZenithSubmission, InvalidSubmission}}
    \cup {Request("/api/rater/risk-matrix", s) : s \in {AcmeSubmission, ZenithSubmission}}
    \cup {Request("/api/rater/save-quote", b) :
            b \in {EmptyQuote("q1", "acme"), EmptyQuote("q2", "zenith"), MalformedQuote,
                   BadTierQuote}}
    \cup {Request("/api/rater/quotes", NoBody)}

InitServer ==
    /\ Idle
    /\ requests \in SeqsUpTo(ServerRequests, MaxRequests)

NextServer == QuoteSubmission \/ ComputeRiskMatrix \/ SaveQuote \/ ListQuotes

SpecServer == InitServer /\ [][NextServer]_vars

(***************************************************************************)
(* SpecPredict: MaxPredicts concurrent requests to /api/ml/predict.  The   *)
(* handler is asynchronous: it awaits the Python check and the write of    *)
(* the script, the Python process reads the script on its own, and the     *)
(* close handler awaits the removal of the script.  Each of these is one   *)
(* step; steps of different requests interleave.                           *)
(***************************************************************************)
PredictBodies ==
    {[driverAge |-> 30, vehicleAge |-> 5, violations |-> 0, accidents |-> 0, priorClaims |-> 0],
     [driverAge |-> 45, vehicleAge |-> 12, vehicleType |-> "Truck", violations |-> 2,
      accidents |-> 1, priorClaims |-> 1, geographicRisk |-> 150, creditScore |-> 640]}

Field(body, name, default) == IF name \in DOMAIN body THEN body[name] ELSE default

\* the text of predictionScript, as the arguments substituted into the template
Script(body) ==
    [driver_age |-> body.driverAge,
     vehicle_age |-> body.vehicleAge,
     vehicle_type |-> Field(body, "vehicleType", "Sedan"),
     violations |-> body.violations,
     accidents |-> body.accidents,
     prior_claims |-> body.priorClaims,
     geographic_risk |-> Field(body, "geographicRisk", 100),
     credit_score |-> Field(body, "creditScore", 700)]

\* what pipeline.predict_risk prints for the arguments of a script
PredictRisk(script) == [predicted_for |-> script]

InitPredict ==
    /\ driver = NoDriver
    /\ scoreRes = NoResult
    /\ rateRes = NoResult
    /\ requests = <<>>
    /\ submission = NoSubmission
    /\ quote = NoResult
    /\ matrix = NoResult
    /\ store = <<>>
    /\ now = 0
    /\ saved = NoResult
    /\ listed = NoResult
    /\ log = <<>>
    /\ tempScript = NoFile
    /\ \E bodies \in [1..MaxPredicts -> PredictBodies] :
           predicts = [r \in 1..MaxPredicts |->
                          [body |-> bodies[r], pc |-> "check", ran |-> NotRun,
                           response |-> NoResult]]

RaterUnchanged ==
    UNCHANGED <<driver, scoreRes, rateRes, requests, submission, quote, matrix, store, now,
                saved, listed, log>>

\* await checkPythonAvailability(); a rejection is answered by the catch block
CheckPython(r) ==
    /\ predicts[r].pc = "check"
    /\ \E found \in BOOLEAN :
           predicts' =
               IF found THEN [predicts EXCEPT ![r].pc = "write"]
               ELSE [predicts EXCEPT ![r].pc = "done",
                                     ![r].response = [status |-> 500, success |-> FALSE,
                                                      message |-> "Error making prediction"]]
    /\ UNCHANGED tempScript
    /\ RaterUnchanged

\* await fs.writeFile(tempScriptPath, predictionScript)
WriteScript(r) ==
    /\ predicts[r].pc = "write"
    /\ tempScript' = Script(predicts[r].body)
    /\ predicts' = [predicts EXCEPT ![r].pc = "spawn"]
    /\ RaterUnchanged

\* spawn(pythonCmd, [tempScriptPath])
Spawn(r) ==
    /\ predicts[r].pc = "spawn"
    /\ predicts' = [predicts EXCEPT ![r].pc = "running"]
    /\ UNCHANGED tempScript
    /\ RaterUnchanged

\* the Python process opens the path it was given, runs what it finds and exits
ReadScript(r) ==
    /\ predicts[r].pc = "running"
    /\ predicts' = [predicts EXCEPT ![r].pc = "exited", ![r].ran = tempScript]
    /\ UNCHANGED tempScript
    /\ RaterUnchanged

\* on("close"): await fs.unlink(tempScriptPath), errors ignored
Close(r) ==
    /\ predicts[r].pc = "exited"
    /\ tempScript' = NoFile
    /\ predicts' = [predicts EXCEPT ![r].pc = "respond"]
    /\ RaterUnchanged

\* the rest of on("close"): the answer made from the exit code and the output
Respond(r) ==
    /\ predicts[r].pc = "respond"
    /\ \E loaded \in BOOLEAN :
           predicts' =
               [predicts EXCEPT
                   ![r].pc = "done",
                   ![r].response =
                       IF predicts[r].ran = NoFile
                       THEN [status |-> 500, success |-> FALSE,
                             message |-> "Prediction failed"]
                       ELSE IF ~loaded
                       THEN [status |-> 500, success |-> FALSE,
                             message |-> "Models not loaded"]
                       ELSE [status |-> 200, success |-> TRUE,
                             prediction |-> PredictRisk(predicts[r].ran)]]
    /\ UNCHANGED tempScript
    /\ RaterUnchanged

NextPredict ==
    \/ \E r \in DOMAIN predicts : CheckPython(r)
    \/ \E r \in DOMAIN predicts : WriteScript(r)
    \/ \E r \in DOMAIN predicts : Spawn(r)
    \/ \E r \in DOMAIN predicts : ReadScript(r)
    \/ \E r \in DOMAIN predicts : Close(r)
    \/ \E r \in DOMAIN predicts : Respond(r)

SpecPredict == InitPredict /\ [][NextPredict]_vars

(***************************************************************************)
(* Properties.                                                             *)
(***************************************************************************)
Scored == scoreRes # NoResult
Rated == rateRes # NoResult
Quoted == quote.status = 200
MatrixDone == matrix.status = 200

\* C1: for every driver, also one with adversarially large violations,
\* accidents and priorClaims counts, scoreDriverRisk returns a score in [0,100].
C1_ScoreWithinRange == Scored => scoreRes.score >= 0 /\ scoreRes.score <= 100

C1_Witness ==
    /\ Scored
    /\ driver.violations = HugeCount /\ driver.accidents = HugeCount
    /\ driver.priorClaims = HugeCount
    /\ scoreRes.score = 100

RatLeq(x, y) == ~RatLess(y, x)

\* C2: buildRiskMatrix returns overallScore in [0,100] and the riskTier of the
\* thresholds: Low iff overallScore < 35, Moderate iff 35 <= overallScore < 65,
\* High iff 65 <= overallScore < 85, Severe iff overallScore >= 85.
C2_TierMatchesThresholds ==
    MatrixDone =>
        LET o == matrix.riskMatrix.overallScore
            t == matrix.riskMatrix.riskTier
        IN  /\ RatLeq(Rat(0, 1), o) /\ RatLeq(o, Rat(100, 1))
            /\ (t = "Low") <=> RatLess(o, Rat(35, 1))
            /\ (t = "Moderate") <=> (RatLeq(Rat(35, 1), o) /\ RatLess(o, Rat(65, 1)))
            /\ (t = "High") <=> (RatLeq(Rat(65, 1), o) /\ RatLess(o, Rat(85, 1)))
            /\ (t = "Severe") <=> RatLeq(Rat(85, 1), o)

C2_Witness ==
    /\ MatrixDone
    /\ matrix.riskMatrix.overallScore = Rat(35, 1)
    /\ matrix.riskMatrix.riskTier = "Moderate"

\* C3: the quote's totalPremium equals the exact integer sum of the premiums
\* of the entries of the aggregated lines.
C3_TotalIsSumOfLines ==
    Quoted => quote.quote.totalPremium = SumPremiums(quote.quote.lines)

C3_Witness ==
    /\ Quoted
    /\ Len(submission.drivers) = MaxDrivers /\ Len(submission.vehicles) = MaxVehicles
    /\ Len(quote.quote.lines) >= 4
    /\ quote.quote.totalPremium > 0

\* C4: the aggregated lines hold at most one entry per LineOfBusiness, however
\* many vehicles emit the same line.
C4_NoDuplicateLines ==
    Quoted =>
        \A i, j \in DOMAIN quote.quote.lines :
            quote.quote.lines[i].line = quote.quote.lines[j].line => i = j

C4_Witness ==
    /\ Quoted
    /\ Len(quote.quote.perVehicle) >= 2
    /\ \A i \in DOMAIN quote.quote.perVehicle : Len(quote.quote.perVehicle[i].lines) >= 4
    /\ Len(quote.quote.lines) >= 4

LinesOf(lines, name) == SelectSeq(lines, LAMBDA l : l.line = name)

VehicleAlTotal(perVehicle) ==
    ReducePlus([i \in DOMAIN perVehicle |->
                    SumPremiums(LinesOf(perVehicle[i].lines, "AutoLiability"))])

\* C5: with at least one vehicle, the aggregated AutoLiability premium is the
\* sum of every vehicle's AutoLiability line premium plus the sum of every
\* driver's auto-liability premium.
C5_AutoLiabilityIsVehiclesPlusDrivers ==
    (Quoted /\ Len(submission.vehicles) >= 1) =>
        \E i \in DOMAIN quote.quote.lines :
            /\ quote.quote.lines[i].line = "AutoLiability"
            /\ quote.quote.lines[i].premium =
                   VehicleAlTotal(quote.quote.perVehicle)
                   + SumPremiums(quote.quote.perDriver)

C5_Witness ==
    /\ Quoted
    /\ Len(quote.quote.perVehicle) = 2
    /\ Len(quote.quote.perDriver) >= 1
    /\ quote.quote.perVehicle[1].lines[1].premium # quote.quote.perVehicle[2].lines[1].premium

Emits(v, name) == \E k \in DOMAIN v.lines : v.lines[k].line = name

LastEmitting(perVehicle, name) ==
    CHOOSE j \in DOMAIN perVehicle :
        /\ Emits(perVehicle[j], name)
        /\ \A k \in DOMAIN perVehicle : Emits(perVehicle[k], name) => k <= j

\* C6: every aggregated line carries the baseRate and the factors of the last
\* vehicle (in submission order) whose breakdown contains that line.
C6_FactorsOfLastVehicle ==
    Quoted =>
        \A i \in DOMAIN quote.quote.lines :
            LET name == quote.quote.lines[i].line
                pv == quote.quote.perVehicle
            IN  (\E j \in DOMAIN pv : Emits(pv[j], name)) =>
                    LET l == LinesOf(pv[LastEmitting(pv, name)].lines, name)[1]
                    IN  /\ quote.quote.lines[i].baseRate = l.baseRate
                        /\ quote.quote.lines[i].factors = l.factors

\* C8: for a submission within the documented ranges, every per-driver
\* premium, per-vehicle line premium, aggregated line premium and the
\* totalPremium is a non-negative whole number.
C8_PremiumsNonNegative ==
    Quoted =>
        /\ \A i \in DOMAIN quote.quote.perDriver : quote.quote.perDriver[i].premium \in Nat
        /\ \A i \in DOMAIN quote.quote.perVehicle :
               \A k \in DOMAIN quote.quote.perVehicle[i].lines :
                   quote.quote.perVehicle[i].lines[k].premium \in Nat
        /\ \A i \in DOMAIN quote.quote.lines : quote.quote.lines[i].premium \in Nat
        /\ quote.quote.totalPremium \in Nat

C8_Witness ==
    /\ Quoted
    /\ Len(quote.quote.perDriver) >= 1 /\ Len(quote.quote.perVehicle) >= 1
    /\ \E i \in DOMAIN quote.quote.lines : quote.quote.lines[i].line = "MotorTruckCargo"
    /\ submission.operationalFactors.geographicRisk = 50

ScenarioA ==
    /\ driver.age = 22 /\ driver.violations = 0 /\ driver.accidents = 0
    /\ driver.priorClaims = 0 /\ driver.yearsCdl = 0

ScenarioAResult(premium) ==
    /\ scoreRes.score = 73
    /\ scoreRes.factors = <<F("age_lt_25", 130), F("cdl_lt_1", 118)>>
    /\ rateRes.factors[1] = F("scoreFactor", 146)
    /\ rateRes.premium = premium

\* C9 as stated: the driver of scenario A (age 22, no violations, accidents or
\* prior claims, yearsCdl 0) scores 73 with age_lt_25 = 1.3 and cdl_lt_1 = 1.18,
\* and at baseRate 800 gets scoreFactor 1.46 and premium 1793.
C9_ScenarioA_Original == (ScenarioA /\ Scored /\ Rated) => ScenarioAResult(1793)

\* C9 amended: as above, with premium 1792 = round(800 * 1.46 * 1.3 * 1.18)
\* = round(1791.712).
C9_ScenarioA == (ScenarioA /\ Scored /\ Rated) => ScenarioAResult(1792)

C9_Witness == ScenarioA /\ Scored /\ Rated /\ rateRes.premium = 1792

AgeFactorNames == {"age_lt_25", "age_gt_65", "age_25_50"}

AgeFactorsPresent == FactorNames(scoreRes.factors) \cap AgeFactorNames

AgeAdjOf(name) ==
    CASE name = "age_lt_25" -> 15
      [] name = "age_gt_65" -> 8
      [] name = "age_25_50" -> -5

RECURSIVE SumAgeAdj(_)
SumAgeAdj(names) ==
    IF names = {} THEN 0
    ELSE LET n == CHOOSE x \in names : TRUE IN AgeAdjOf(n) + SumAgeAdj(names \ {n})

OtherAdj(d) ==
    (IF d.yearsCdl >= 5 THEN -5 ELSE IF d.yearsCdl <= 1 THEN 8 ELSE 0)
    + 10 * d.violations + 15 * d.accidents + 12 * d.priorClaims

AgeAdjApplied ==
    scoreRes.score = Max(0, Min(100, 50 + SumAgeAdj(AgeFactorsPresent) + OtherAdj(driver)))

\* C10 as stated: for every driver with age in [16,100] exactly one of the
\* factors age_lt_25, age_gt_65, age_25_50 is in the factor map, and exactly
\* one age adjustment (+15, +8 or -5) is applied to the score.
C10_ExactlyOneAgeBracket_Original ==
    (Scored /\ driver.age >= 16 /\ driver.age <= 100) =>
        /\ Cardinality(AgeFactorsPresent) = 1
        /\ AgeAdjApplied

\* C10 amended: at most one age-bracket factor is in the factor map, with its
\* adjustment applied to the score; exactly one unless 51 <= age <= 65, where
\* none is present and no age adjustment is applied.
C10_AtMostOneAgeBracket ==
    (Scored /\ driver.age >= 16 /\ driver.age <= 100) =>
        /\ Cardinality(AgeFactorsPresent) <= 1
        /\ (Cardinality(AgeFactorsPresent) = 0) <=> (driver.age >= 51 /\ driver.age <= 65)
        /\ AgeAdjApplied

C10_Witness ==
    /\ Scored
    /\ driver.age = 51
    /\ AgeFactorsPresent = {}
    /\ scoreRes.score = 50 + OtherAdj(driver)

HasLine(lines, name) == \E i \in DOMAIN lines : lines[i].line = name

SomeVehicleEmits(name) ==
    \E j \in DOMAIN quote.quote.perVehicle : Emits(quote.quote.perVehicle[j], name)

\* C11 as stated: a LineOfBusiness has an entry in the aggregated lines iff at
\* least one vehicle's breakdown contains that line, also with zero vehicles.
C11_EntryIffVehicleEmits_Original ==
    Quoted =>
        \A name \in LinesOfBusiness :
            HasLine(quote.quote.lines, name) <=> SomeVehicleEmits(name)

\* C11 amended: a LineOfBusiness other than AutoLiability has an entry iff at
\* least one vehicle's breakdown contains it; AutoLiability always has an
\* entry, also for a submission with zero vehicles.
C11_EntryIffVehicleEmits ==
    Quoted =>
        /\ \A name \in LinesOfBusiness \ {"AutoLiability"} :
               HasLine(quote.quote.lines, name) <=> SomeVehicleEmits(name)
        /\ HasLine(quote.quote.lines, "AutoLiability")
        /\ \A i \in DOMAIN quote.quote.lines : quote.quote.lines[i].line \in LinesOfBusiness

C11_Witness ==
    /\ Quoted
    /\ submission.vehicles = <<>>
    /\ Len(submission.drivers) >= 1
    /\ Len(quote.quote.lines) = 1
    /\ quote.quote.lines[1].line = "AutoLiability"

ReeferTrailerInFleet ==
    \E i \in DOMAIN submission.trailers :
        submission.trailers[i].refrigerated \/ submission.trailers[i].trailerType = "Reefer"

C13_EmptyFleetDefined ==
    (MatrixDone /\ submission.drivers = <<>> /\ submission.vehicles = <<>>) =>
        LET rm == matrix.riskMatrix
        IN  /\ rm.cells[1].frequency = RatClamp(Rat(0, 1), 1, 5)
            /\ rm.cells[2].frequency = RatClamp(Rat(0, 1), 1, 5)
            /\ rm.overallScore.d # 0
            /\ RatLeq(Rat(0, 1), rm.overallScore) /\ RatLeq(rm.overallScore, Rat(100, 1))

C13_Witness ==
    /\ MatrixDone /\ submission.drivers = <<>> /\ submission.vehicles = <<>>
    /\ matrix.riskMatrix.overallScore = Rat(40, 3)
    /\ matrix.riskMatrix.riskTier = "Low"

\* C14: the risk matrix has exactly the cells Driver Behavior, Equipment,
\* Operations in that order, each with frequency and severity within [1,5]
\* and score = frequency * severity.
C14_ThreeCellsInRange ==
    MatrixDone =>
        LET cells == matrix.riskMatrix.cells
        IN  /\ Len(cells) = 3
            /\ cells[1].category = "Driver Behavior"
            /\ cells[2].category = "Equipment"
            /\ cells[3].category = "Operations"
            /\ \A i \in DOMAIN cells :
                   /\ RatLeq(Rat(1, 1), cells[i].frequency)
                   /\ RatLeq(cells[i].frequency, Rat(5, 1))
                   /\ cells[i].severity \in 1..5
                   /\ cells[i].score = RatTimes(cells[i].frequency, Rat(cells[i].severity, 1))

C14_Witness ==
    /\ MatrixDone
    /\ Len(submission.drivers) >= 2
    /\ \A i \in DOMAIN submission.drivers : submission.drivers[i].violations >= HugeCount
    /\ matrix.riskMatrix.cells[1].frequency = Rat(5, 1)
    /\ matrix.riskMatrix.cells[1].score = Rat(20, 1)
AgeAdj(age) ==
    IF age < 25 THEN 15 ELSE IF age > 65 THEN 8 ELSE IF age >= 25 /\ age <= 50 THEN -5 ELSE 0

\* C18: scoreDriverRisk returns clamp(50 + ageAdj + cdlAdj + 10*violations +
\* 15*accidents + 12*priorClaims, 0, 100) with ageAdj +15 / +8 / -5 / 0 and
\* cdlAdj -5 / +8 / 0 as the brackets say.
C18_ScoreFormula ==
    Scored => scoreRes.score = Max(0, Min(100, 50 + AgeAdj(driver.age) + OtherAdj(driver)))

C18_Witness ==
    /\ Scored
    /\ driver.age = 51 /\ driver.yearsCdl = 2
    /\ driver.violations = 0 /\ driver.accidents = 1 /\ driver.priorClaims = 2
    /\ scoreRes.score = 89

FactorAt(factors, name) ==
    LET hits == SelectSeq(factors, LAMBDA f : f.name = name)
    IN  IF hits = <<>> THEN 0 ELSE hits[1].value

Multiplier(count, step) == IF count > 0 THEN Scale + step * count ELSE 0

\* C19: rateAutoLiabilityForDriver returns premium = round(baseRate *
\* scoreFactor * product of the multipliers in scoreDriverRisk's factor map),
\* scoreFactor = score/50 clamped into [0.6, 2.0]; the violations, accidents
\* and prior_claims multipliers 1+0.08v, 1+0.12a, 1+0.10p are present exactly
\* when the count is greater than 0.
C19_PremiumIsRoundedProduct ==
    (Scored /\ Rated) =>
        LET scoreFactor == Max(60, Min(200, 2 * scoreRes.score))
        IN  /\ rateRes.premium =
                   MathRound(ReduceTimes(scoreRes.factors,
                                         ScTimes(Sc(DriverBaseRate), scoreFactor)))
            /\ FactorAt(scoreRes.factors, "violations") = Multiplier(driver.violations, 8)
            /\ FactorAt(scoreRes.factors, "accidents") = Multiplier(driver.accidents, 12)
            /\ FactorAt(scoreRes.factors, "prior_claims") = Multiplier(driver.priorClaims, 10)

C19_Witness ==
    /\ Scored /\ Rated
    /\ driver.age = 50 /\ driver.yearsCdl = 5
    /\ driver.violations = 1 /\ driver.accidents = 0 /\ driver.priorClaims = 2
    /\ scoreRes.score = 74
    /\ FactorAt(scoreRes.factors, "violations") = 108
    /\ FactorAt(scoreRes.factors, "accidents") = 0
    /\ FactorAt(scoreRes.factors, "prior_claims") = 120
    /\ rateRes.premium = 1271

CountOf(v, name) == Len(SelectSeq(v.lines, LAMBDA l : l.line = name))

\* C20: rateVehicleLines emits each line of business at most once per vehicle;
\* AutoLiability and GeneralLiability always, MotorTruckCargo exactly when
\* coverages.cargoLimitPerVehicle > 0, TrailerInterchange exactly when
\* coverages.trailerInterchange is true.
C20_LinesPerVehicle ==
    Quoted =>
        \A j \in DOMAIN quote.quote.perVehicle :
            LET v == quote.quote.perVehicle[j]
            IN  /\ \A name \in LinesOfBusiness : CountOf(v, name) <= 1
                /\ \A k \in DOMAIN v.lines : v.lines[k].line \in LinesOfBusiness
                /\ Emits(v, "AutoLiability") /\ Emits(v, "GeneralLiability")
                /\ Emits(v, "MotorTruckCargo") <=> submission.coverages.cargoLimitPerVehicle > 0
                /\ Emits(v, "TrailerInterchange") <=> submission.coverages.trailerInterchange

C20_Witness ==
    /\ Quoted
    /\ Len(submission.vehicles) = 1
    /\ submission.vehicles[1].vehicleAge = 0 /\ submission.vehicles[1].gvw = 10000
    /\ submission.operationalFactors.avgMilesPerYearPerUnit = 60000
    /\ submission.operationalFactors.geographicRisk = 100
    /\ submission.coverages.cargoLimitPerVehicle = 0
    /\ ~submission.coverages.reeferCoverage /\ ~submission.coverages.trailerInterchange
    /\ Len(quote.quote.perVehicle[1].lines) = 2
    /\ quote.quote.perVehicle[1].lines[1].line = "AutoLiability"
    /\ quote.quote.perVehicle[1].lines[1].premium = 1500
    /\ quote.quote.perVehicle[1].lines[2].line = "GeneralLiability"
    /\ quote.quote.perVehicle[1].lines[2].premium = 500
\* C15: for a valid submission, the riskMatrix answered by computeRiskMatrix
\* equals the riskMatrix field of the quote answered by quoteSubmission for the
\* same submission.
C15_SameRiskMatrix ==
    \A i, j \in DOMAIN log :
        (/\ log[i].route = "/api/rater/quote" /\ log[j].route = "/api/rater/risk-matrix"
         /\ log[i].body = log[j].body
         /\ log[i].response.status = 200 /\ log[j].response.status = 200)
        => log[i].response.quote.riskMatrix = log[j].response.riskMatrix

C15_Witness ==
    /\ Len(log) = 2
    /\ log[1].route = "/api/rater/quote" /\ log[2].route = "/api/rater/risk-matrix"
    /\ log[1].body = log[2].body
    /\ log[1].response.status = 200 /\ log[2].response.status = 200
    /\ Len(log[1].body.drivers) = 2 /\ Len(log[1].body.trailers) = 1
    /\ log[2].response.riskMatrix.cells[2].severity = 5
    /\ log[1].response.quote.riskMatrix.cells[2].severity = 5
\* the response without the generated quoteId
WithoutQuoteId(response) ==
    IF "quote" \in DOMAIN response THEN [response EXCEPT !.quote.quoteId = ""] ELSE response

\* what a rating request is answered when it is the only request of the server
AnsweredAlone(route, body) ==
    IF ~SubmissionValid(body) THEN BadRequest
    ELSE IF route = "/api/rater/quote"
         THEN [status |-> 200, success |-> TRUE, quote |-> Quote(body, "")]
         ELSE [status |-> 200, success |-> TRUE, riskMatrix |-> buildRiskMatrix(body)]

\* C16: in every order of serving concurrent quoteSubmission and
\* computeRiskMatrix requests (among any other requests), each rating request
\* is answered, apart from quoteId, what it is answered when served alone.
C16_AnsweredAsAlone ==
    \A i \in DOMAIN log :
        log[i].route \in Routes =>
            WithoutQuoteId(log[i].response) = AnsweredAlone(log[i].route, log[i].body)

C16_Witness ==
    /\ Len(log) = 3
    /\ log[1].route = "/api/rater/quote" /\ log[1].body = ZenithSubmission
    /\ log[2].route = "/api/rater/risk-matrix" /\ log[2].body = AcmeSubmission
    /\ log[3].route = "/api/rater/quote" /\ log[3].body = AcmeSubmission
    /\ log[3].response.status = 200
    /\ log[3].response.quote.companyName = "acme"
    /\ log[3].response.quote.totalPremium # log[1].response.quote.totalPremium

SuccessfulSaves ==
    SelectSeq(log, LAMBDA entry : entry.route = "/api/rater/save-quote"
                                  /\ entry.response.success)

\* C17: after any sequence of quoteSubmission, computeRiskMatrix, saveQuote
\* and listQuotes requests the quote store holds exactly one entry per
\* successful saveQuote call, in the order of the calls; no other request
\* changes it.
C17_StoreIsTheSuccessfulSaves ==
    /\ Len(store) = Len(SuccessfulSaves)
    /\ \A i \in DOMAIN store :
           /\ store[i] = SuccessfulSaves[i].response.saved
           /\ \A f \in QuoteResultFields : store[i][f] = SuccessfulSaves[i].body[f]

C17_Witness ==
    /\ Len(log) = 3
    /\ log[1].route = "/api/rater/save-quote" /\ log[1].response.success
    /\ log[2].route = "/api/rater/quote" /\ log[2].response.success
    /\ log[3].route = "/api/rater/quotes"
    /\ Len(store) = 1
    /\ store[1].companyName = "zenith" /\ store[1].version = 1
    /\ log[3].response.quotes = store
BaseRateOf(line) ==
    CASE line = "AutoLiability" -> 1500
      [] line = "GeneralLiability" -> 500
      [] line = "MotorTruckCargo" -> 400
      [] line = "ReeferBreakdown" -> 250
      [] line = "TrailerInterchange" -> 150

\* value (in hundredths) is limit / unit clamped into [1/2, top]
IsLimitFactor(value, limit, unit, top) ==
    value * unit = Scale * Max(unit \div 2, Min(top * unit, limit))

FactorAsStated(f, vehicle, s) ==
    CASE f.name = "ageFactor" -> f.value = Scale + Min(vehicle.vehicleAge, 25)
      [] f.name = "gvwFactor" -> f.value = (IF vehicle.gvw > 26000 THEN 120 ELSE 100)
      [] f.name = "radiusFactor" ->
            f.value = (IF s.operationalFactors.avgMilesPerYearPerUnit > 80000 THEN 115 ELSE 100)
      [] f.name = "geoFactor" -> f.value = s.operationalFactors.geographicRisk
      [] f.name = "cargoLimitFactor" ->
            IsLimitFactor(f.value, s.coverages.cargoLimitPerVehicle, 100000, 5)
      [] f.name = "reeferLimitFactor" ->
            IsLimitFactor(f.value, s.coverages.reeferLimitPerVehicle, 25000, 4)
      [] f.name = "tiLimitFactor" ->
            IsLimitFactor(f.value, s.coverages.trailerInterchangeLimit, 40000, 3)
      [] OTHER -> FALSE

\* C21: every line emitted by rateVehicleLines has premium = round(baseRate *
\* product of the line's factors), baseRate 1500/500/400/250/150 by line, and
\* the factors have the stated values; a vehicle of age 0, gvw 10000, mileage
\* 60000 and geographicRisk 1.0 gets AutoLiability 1500, GeneralLiability 500.
C21_LinePremiums ==
    Quoted =>
        \A j \in DOMAIN quote.quote.perVehicle :
            LET lines == quote.quote.perVehicle[j].lines
                vehicle == submission.vehicles[j]
            IN  /\ \A k \in DOMAIN lines :
                       /\ lines[k].baseRate = BaseRateOf(lines[k].line)
                       /\ lines[k].premium =
                              MathRound(ReduceTimes(lines[k].factors, Sc(lines[k].baseRate)))
                       /\ \A n \in DOMAIN lines[k].factors :
                              FactorAsStated(lines[k].factors[n], vehicle, submission)
                /\ (/\ vehicle.vehicleAge = 0 /\ vehicle.gvw = 10000
                    /\ submission.operationalFactors.avgMilesPerYearPerUnit = 60000
                    /\ submission.operationalFactors.geographicRisk = 100)
                   => lines[1].premium = 1500 /\ lines[2].premium = 500

C21_Witness ==
    /\ Quoted
    /\ Len(submission.vehicles) = 2
    /\ submission.vehicles[2].vehicleAge = 30 /\ submission.vehicles[2].gvw = 30000
    /\ submission.operationalFactors.avgMilesPerYearPerUnit = 90000
    /\ submission.coverages.cargoLimitPerVehicle = 250000
    /\ \E k \in DOMAIN quote.quote.perVehicle[2].lines :
           /\ quote.quote.perVehicle[2].lines[k].line = "MotorTruckCargo"
           /\ FactorAt(quote.quote.perVehicle[2].lines[k].factors, "cargoLimitFactor") = 250
           /\ quote.quote.perVehicle[2].lines[k].premium = 2300
    /\ quote.quote.perVehicle[2].lines[1].premium = 5175
RECURSIVE SumViolationsAccidents(_)
SumViolationsAccidents(drivers) ==
    IF drivers = <<>> THEN 0
    ELSE Head(drivers).violations + Head(drivers).accidents
         + SumViolationsAccidents(Tail(drivers))

CountOld(vehicles) == Cardinality({i \in DOMAIN vehicles : vehicles[i].vehicleAge > 10})

\* f = clamp(sum / max(1, count), 1, 5)
IsClampedAverage(f, sum, count) ==
    LET n == IF count = 0 THEN 1 ELSE count
    IN  IF sum <= n THEN f = [n |-> 1, d |-> 1]
        ELSE IF sum >= 5 * n THEN f = [n |-> 5, d |-> 1]
        ELSE f.d > 0 /\ f.n * n = sum * f.d

\* C22: buildRiskMatrix computes the Driver Behavior, Equipment and Operations
\* frequencies and severities as stated, and overallScore = clamp(sum of the
\* three cell scores / 75 * 100, 0, 100).
C22_MatrixAsStated ==
    MatrixDone =>
        LET cells == matrix.riskMatrix.cells
            total == RatPlus(RatPlus(cells[1].score, cells[2].score), cells[3].score)
        IN  /\ IsClampedAverage(cells[1].frequency, SumViolationsAccidents(submission.drivers),
                                Len(submission.drivers))
            /\ cells[1].severity =
                   (IF \E i \in DOMAIN submission.drivers : submission.drivers[i].accidents >= 2
                    THEN 4 ELSE 2)
            /\ IsClampedAverage(cells[2].frequency, CountOld(submission.vehicles),
                                Len(submission.vehicles))
            /\ cells[2].severity =
                   (IF \E i \in DOMAIN submission.trailers :
                           submission.trailers[i].trailerType = "Tanker"
                    THEN 5 ELSE 2)
            /\ cells[3].frequency =
                   (IF submission.operationalFactors.avgMilesPerYearPerUnit > 80000
                    THEN [n |-> 4, d |-> 1] ELSE [n |-> 2, d |-> 1])
            /\ cells[3].severity =
                   (IF "Hazmat" \in submission.operationalFactors.cargoTypeMix THEN 5 ELSE 3)
            /\ matrix.riskMatrix.overallScore =
                   RatClamp(Rat(100 * total.n, 75 * total.d), 0, 100)

C22_Witness ==
    /\ MatrixDone
    /\ Len(submission.drivers) = 3
    /\ SumViolationsAccidents(submission.drivers) = 7
    /\ matrix.riskMatrix.cells[1].frequency = [n |-> 7, d |-> 3]
    /\ matrix.riskMatrix.cells[1].severity = 4
    /\ matrix.riskMatrix.cells[2].severity = 5
    /\ matrix.riskMatrix.cells[3].score = [n |-> 20, d |-> 1]
    /\ matrix.riskMatrix.overallScore = [n |-> 412, d |-> 9]
RECURSIVE TotalOf(_)
TotalOf(entries) ==
    IF entries = <<>> THEN 0 ELSE Head(entries).premium + TotalOf(Tail(entries))

\* C23: with zero vehicles the aggregated lines are a single AutoLiability
\* entry with baseRate 800, empty factors and premium equal to the sum of the
\* per-driver premiums (0 without drivers); with at least one vehicle the
\* aggregated AutoLiability baseRate is 1500.
C23_DriverOnlyAutoLiability ==
    Quoted =>
        IF submission.vehicles = <<>>
        THEN quote.quote.lines =
                 <<[line |-> "AutoLiability", premium |-> TotalOf(quote.quote.perDriver),
                    baseRate |-> 800, factors |-> <<>>]>>
        ELSE \A i \in DOMAIN quote.quote.lines :
                 quote.quote.lines[i].line = "AutoLiability"
                     => quote.quote.lines[i].baseRate = 1500

C23_Witness ==
    /\ Quoted
    /\ submission.vehicles = <<>>
    /\ Len(submission.drivers) = 2
    /\ submission.drivers[1] # submission.drivers[2]
    /\ quote.quote.lines[1].baseRate = 800
    /\ quote.quote.lines[1].premium =
           quote.quote.perDriver[1].premium + quote.quote.perDriver[2].premium
    /\ quote.quote.lines[1].premium > 1792

RECURSIVE TotalOfVehicles(_)
TotalOfVehicles(perVehicle) ==
    IF perVehicle = <<>> THEN 0
    ELSE TotalOf(Head(perVehicle).lines) + TotalOfVehicles(Tail(perVehicle))

\* C24: totalPremium equals the sum of all line premiums in perVehicle plus
\* the sum of all premiums in perDriver.
C24_TotalIsVehiclesPlusDrivers ==
    Quoted =>
        quote.quote.totalPremium =
            TotalOfVehicles(quote.quote.perVehicle) + TotalOf(quote.quote.perDriver)

C24_Witness ==
    /\ Quoted
    /\ Len(quote.quote.perVehicle) = 2 /\ Len(quote.quote.perDriver) = 2
    /\ Len(quote.quote.perVehicle[1].lines) = 5
    /\ quote.quote.perVehicle[1].lines # quote.quote.perVehicle[2].lines
    /\ quote.quote.totalPremium > TotalOfVehicles(quote.quote.perVehicle)
    /\ TotalOfVehicles(quote.quote.perVehicle) > 0
\* C25: for every submission satisfying the input schema the overallScore
\* lies between 10/75*100 and 60 inclusive, so riskTier is Low or Moderate.
C25_ScoreAtMostSixty ==
    MatrixDone =>
        /\ RatLeq(Rat(1000, 75), matrix.riskMatrix.overallScore)
        /\ RatLeq(matrix.riskMatrix.overallScore, Rat(60, 1))
        /\ matrix.riskMatrix.riskTier \in {"Low", "Moderate"}

C25_Witness ==
    /\ MatrixDone
    /\ Len(submission.vehicles) = 2
    /\ \A i \in DOMAIN submission.vehicles : submission.vehicles[i].vehicleAge > 10
    /\ matrix.riskMatrix.cells[1].score = [n |-> 20, d |-> 1]
    /\ matrix.riskMatrix.cells[2].score = [n |-> 5, d |-> 1]
    /\ matrix.riskMatrix.cells[3].score = [n |-> 20, d |-> 1]
    /\ matrix.riskMatrix.overallScore = [n |-> 60, d |-> 1]
    /\ matrix.riskMatrix.riskTier = "Moderate"

AnsweredMatrices ==
    (IF Quoted THEN {quote.quote.riskMatrix} ELSE {})
    \cup (IF MatrixDone THEN {matrix.riskMatrix} ELSE {})

\* C26: the Equipment cell's frequency is exactly 1 whatever the number of
\* vehicles older than 10 years, so its score is 5 with a Tanker trailer in
\* the submission and 2 without.
C26_EquipmentFrequencyIsOne ==
    \A rm \in AnsweredMatrices :
        /\ rm.cells[2].frequency = [n |-> 1, d |-> 1]
        /\ rm.cells[2].score =
               (IF \E i \in DOMAIN submission.trailers :
                       submission.trailers[i].trailerType = "Tanker"
                THEN [n |-> 5, d |-> 1] ELSE [n |-> 2, d |-> 1])

C26_Witness ==
    /\ Quoted
    /\ Len(submission.vehicles) = 2
    /\ submission.vehicles[1].vehicleAge = 0 /\ submission.vehicles[2].vehicleAge = 30
    /\ submission.trailers = <<>>
    /\ quote.quote.riskMatrix.cells[2].frequency = [n |-> 1, d |-> 1]
    /\ quote.quote.riskMatrix.cells[2].score = [n |-> 2, d |-> 1]
SavesOf(companyName) ==
    SelectSeq(SuccessfulSaves, LAMBDA entry : entry.body.companyName = companyName)

\* C27: after any sequence of saveQuote requests the stored quotes of each
\* companyName carry the versions 1, 2, ..., n in save order, n being the
\* number of successful saves for that company.
C27_VersionsPerCompany ==
    \A i \in DOMAIN store :
        LET earlier == {j \in 1..i : store[j].companyName = store[i].companyName}
        IN  /\ store[i].version = Cardinality(earlier)
            /\ store[i].version <= Len(SavesOf(store[i].companyName))
            /\ \E k \in DOMAIN store :
                   /\ store[k].companyName = store[i].companyName
                   /\ store[k].version = Len(SavesOf(store[i].companyName))

C27_Witness ==
    /\ Len(store) = 3
    /\ store[1].companyName = "acme" /\ store[1].version = 1
    /\ store[2].companyName = "zenith" /\ store[2].version = 1
    /\ store[3].companyName = "acme" /\ store[3].version = 2

SaveQuoteServed ==
    /\ Len(log') = Len(log) + 1
    /\ log'[Len(log')].route = "/api/rater/save-quote"

\* C28: a saveQuote request whose body fails QuoteResultSchema is answered 400
\* with success=false and leaves the store unchanged; a valid body is answered
\* success=true and appends exactly one entry, the existing entries unchanged.
C28_SaveValidatesBody ==
    [][SaveQuoteServed =>
          LET request == log'[Len(log')]
          IN  IF QuoteResultValid(request.body)
              THEN /\ request.response.success
                   /\ Len(store') = Len(store) + 1
                   /\ SubSeq(store', 1, Len(store)) = store
                   /\ \A f \in QuoteResultFields :
                          store'[Len(store')][f] = request.body[f]
              ELSE /\ request.response.status = 400
                   /\ ~request.response.success
                   /\ store' = store]_vars

C28_Witness ==
    /\ Len(log) = 3
    /\ log[1].route = "/api/rater/save-quote" /\ log[1].response.success
    /\ log[2].route = "/api/rater/save-quote" /\ log[2].body = BadTierQuote
    /\ log[2].response.status = 400
    /\ log[3].route = "/api/rater/save-quote" /\ log[3].body = MalformedQuote
    /\ log[3].response.status = 400
    /\ Len(store) = 1
Reverse(seq) == [i \in DOMAIN seq |-> seq[Len(seq) + 1 - i]]

ListQuotesServed ==
    /\ Len(log') = Len(log) + 1
    /\ log'[Len(log')].route = "/api/rater/quotes"

C30_RunsOwnScript ==
    \A r \in DOMAIN predicts :
        /\ predicts[r].pc = "running" => tempScript # NoFile
        /\ predicts[r].ran # NotRun => predicts[r].ran = Script(predicts[r].body)

====
